---------------------------- MODULE Spec2Model ----------------------------
(***************************************************************************)
(* Verification model of the Advent of Code 2021 solutions.  Every script  *)
(* of the repository is an independent program, so every script gets its   *)
(* own variable (a record of the locals of the function under study) and   *)
(* its own specification SpecDayN; the variables of the other scripts stay *)
(* at Off.  Lists that the code indexes from 0 are functions on 0..n-1.    *)
(***************************************************************************)
EXTENDS Integers, Sequences, FiniteSets, TLC

VARIABLES day5, day6, day7, day8, day9, day11, day14, day15, day16, day18

vars == <<day5, day6, day7, day8, day9, day11, day14, day15, day16, day18>>

\* The state of a script that is not running.
Off == [pc |-> "off"]

\* range(n) as a set, and a Python list literal as a function on 0..n-1.
Range(n) == 0 .. (n - 1)

Size(list) == Cardinality(DOMAIN list)

RECURSIVE SumOver(_, _)
SumOver(f, S) ==
    IF S = {} THEN 0
    ELSE LET x == CHOOSE y \in S : TRUE IN f[x] + SumOver(f, S \ {x})

Abs(x) == IF x < 0 THEN -x ELSE x

(***************************************************************************)
(* day6.py: progress_population                                            *)
(***************************************************************************)
Day6MaxLen == 4
Day6MaxCount == 1
Day6MaxDays == 3
Day6MaxOffset == 2

\* day6.py:69-72: a distribution shorter than respawn_offset + 2 is padded.
Day6Pad(distribution, respawn_offset) ==
    LET max_spawn == Size(distribution) IN
    IF max_spawn <= respawn_offset + 1
    THEN [i \in Range(respawn_offset + 2) |->
             IF i < max_spawn THEN distribution[i] ELSE 0]
    ELSE distribution

\* day6.py:67-68: the value of new_fish before the first day.
Day6InitialNewFish(distribution) == 0

\* day6.py:67-72: the locals after the preamble of progress_population.
Day6Call(days, distribution, respawn_offset) ==
    LET padded == Day6Pad(distribution, respawn_offset) IN
    [pc |-> "loop", days |-> days, respawn_offset |-> respawn_offset,
     input |-> padded, distribution |-> padded, max_spawn |-> Size(padded),
     offset |-> 0, new_fish |-> Day6InitialNewFish(padded), i |-> 0,
     new_dist |-> <<>>]

InitDay6 ==
    /\ \E n \in 1 .. Day6MaxLen, days \in 0 .. Day6MaxDays,
          respawn_offset \in 0 .. Day6MaxOffset :
          \E distribution \in [Range(n) -> 0 .. Day6MaxCount] :
             day6 = Day6Call(days, distribution, respawn_offset)
    /\ day5 = Off /\ day7 = Off /\ day8 = Off /\ day9 = Off /\ day11 = Off
    /\ day14 = Off /\ day15 = Off /\ day18 = Off
    /\ day16 = Off

\* day6.py:74-83: one iteration of the loop over the days.
Day6Day ==
    /\ day6.pc = "loop"
    /\ day6.i < day6.days
    /\ LET offset == day6.offset
           reset_offset == (offset + day6.respawn_offset + 1) % day6.max_spawn
           d1 == [day6.distribution EXCEPT
                     ![reset_offset] = @ + day6.distribution[offset]]
           d2 == [d1 EXCEPT ![offset] = 0]
           d3 == [d2 EXCEPT ![offset] = @ + day6.new_fish]
           next_offset == (offset + 1) % day6.max_spawn
       IN day6' = [day6 EXCEPT !.distribution = d3, !.offset = next_offset,
                               !.new_fish = d3[next_offset], !.i = @ + 1]
    /\ UNCHANGED <<day5, day7, day8, day9, day11, day14, day15, day18, day16>>

\* day6.py:85-88: the circular buffer is rotated back and returned.
Day6Return ==
    /\ day6.pc = "loop"
    /\ day6.i = day6.days
    /\ day6' = [day6 EXCEPT
          !.pc = "done",
          !.new_dist = [i \in Range(day6.max_spawn) |->
              day6.distribution[(day6.offset + i) % day6.max_spawn]]]
    /\ UNCHANGED <<day5, day7, day8, day9, day11, day14, day15, day18, day16>>

NextDay6 == Day6Day \/ Day6Return

SpecDay6 == InitDay6 /\ [][NextDay6]_vars

\* The simulation of the docstring (day6.py:38-42): one day for every object.
\* Objects at 0 respawn at respawn_offset and each creates one object at the
\* last index; every other object moves one index down.
Day6ReferenceDay(d, respawn_offset) ==
    LET n == Size(d) IN
    [i \in Range(n) |->
        (IF i < n - 1 THEN d[i + 1] ELSE 0)
        + (IF i = respawn_offset THEN d[0] ELSE 0)
        + (IF i = n - 1 THEN d[0] ELSE 0)]

RECURSIVE Day6Reference(_, _, _)
Day6Reference(days, d, respawn_offset) ==
    IF days = 0 THEN d
    ELSE Day6Reference(days - 1, Day6ReferenceDay(d, respawn_offset),
                       respawn_offset)

\* C1: progress_population returns, for every distribution and every number
\* of days, the distribution of the day-by-day simulation of its docstring.
C1_MatchesReference ==
    day6.pc = "done" =>
        day6.new_dist = Day6Reference(day6.days, day6.input, day6.respawn_offset)

(***************************************************************************)
(* day9.py: find_size_basins                                               *)
(***************************************************************************)
Day9MaxRows == 3
Day9MaxCols == 3

\* Heights used in the height maps: 9 is a wall, anything else is basin.
Day9Heights == {1, 9}

\* day9.py:84-85
delta_row == <<-1, 0, 1, 0>>

delta_col == <<0, 1, 0, -1>>

\* list.sort() on a list of integers (day9.py:106): insertion into place.
RECURSIVE SortInsert(_, _)
SortInsert(sorted, x) ==
    IF sorted = <<>> THEN <<x>>
    ELSE IF x <= Head(sorted) THEN <<x>> \o sorted
    ELSE <<Head(sorted)>> \o SortInsert(Tail(sorted), x)

RECURSIVE SortList(_)
SortList(list) ==
    IF list = <<>> THEN <<>>
    ELSE SortInsert(SortList(Tail(list)), Head(list))

\* day9.py:100-104: the neighbours of a cell that are appended to the queue,
\* in the order d = 0..3.
RECURSIVE Day9Neighbours(_, _, _, _)
Day9Neighbours(s, row, column, d) ==
    IF d > 4 THEN <<>>
    ELSE LET neighbour_row == row + delta_row[d]
             neighbour_col == column + delta_col[d]
             rest == Day9Neighbours(s, row, column, d + 1)
         IN IF /\ 0 <= neighbour_row /\ neighbour_row < s.num_rows
               /\ 0 <= neighbour_col /\ neighbour_col < s.num_cols
               /\ s.height_map[neighbour_row][neighbour_col] # 9
            THEN <<<<neighbour_row, neighbour_col>>>> \o rest
            ELSE rest

\* day9.py:94-104: the while loop over the queue.  It assigns the popped
\* cell to row and column, the variables of the two enclosing for loops.
RECURSIVE Day9Flood(_, _)
Day9Flood(s, queue) ==
    IF queue = <<>> THEN s
    ELSE LET cell == Head(queue)
             popped == [s EXCEPT !.row = cell[1], !.column = cell[2]]
         IN IF cell \in s.seen_fields
            THEN Day9Flood(popped, Tail(queue))
            ELSE Day9Flood(
                    [popped EXCEPT !.seen_fields = @ \cup {cell},
                                   !.size = @ + 1],
                    Tail(queue) \o Day9Neighbours(s, cell[1], cell[2], 1))

\* day9.py:82-87
Day9Call(height_map, num_rows, num_cols) ==
    [pc |-> "rows", height_map |-> height_map, num_rows |-> num_rows,
     num_cols |-> num_cols, row |-> 0, column |-> 0, row_iter |-> 0,
     column_iter |-> 0, size |-> 0, seen_fields |-> {}, basins_sizes |-> <<>>]

InitDay9 ==
    /\ \E num_rows \in 1 .. Day9MaxRows, num_cols \in 1 .. Day9MaxCols :
          \E height_map \in [Range(num_rows) -> [Range(num_cols) -> Day9Heights]] :
             day9 = Day9Call(height_map, num_rows, num_cols)
    /\ day5 = Off /\ day6 = Off /\ day7 = Off /\ day8 = Off /\ day11 = Off
    /\ day14 = Off /\ day15 = Off /\ day18 = Off
    /\ day16 = Off

\* day9.py:88: the outer for loop hands its next value to row.
Day9NextRow ==
    /\ day9.pc = "rows"
    /\ day9.row_iter < day9.num_rows
    /\ day9' = [day9 EXCEPT !.pc = "columns", !.row = day9.row_iter,
                            !.row_iter = @ + 1, !.column_iter = 0]
    /\ UNCHANGED <<day5, day6, day7, day8, day11, day14, day15, day18, day16>>

\* day9.py:89-105: the inner for loop hands its next value to column; the
\* cell (row, column) starts a basin.
Day9Basin ==
    /\ day9.pc = "columns"
    /\ day9.column_iter < day9.num_cols
    /\ LET s == [day9 EXCEPT !.column = day9.column_iter, !.column_iter = @ + 1]
       IN /\ <<s.row, s.column>> \notin s.seen_fields
          /\ s.height_map[s.row][s.column] # 9
          /\ LET flooded == Day9Flood([s EXCEPT !.size = 0],
                                      <<<<s.row, s.column>>>>)
             IN day9' = [flooded EXCEPT
                            !.basins_sizes = Append(@, flooded.size)]
    /\ UNCHANGED <<day5, day6, day7, day8, day11, day14, day15, day18, day16>>

\* day9.py:89-90: the cell (row, column) is a wall or was seen.
Day9SkipCell ==
    /\ day9.pc = "columns"
    /\ day9.column_iter < day9.num_cols
    /\ LET s == [day9 EXCEPT !.column = day9.column_iter, !.column_iter = @ + 1]
       IN /\ \/ <<s.row, s.column>> \in s.seen_fields
             \/ s.height_map[s.row][s.column] = 9
          /\ day9' = s
    /\ UNCHANGED <<day5, day6, day7, day8, day11, day14, day15, day18, day16>>

\* day9.py:89: the inner for loop is exhausted.
Day9EndRow ==
    /\ day9.pc = "columns"
    /\ day9.column_iter = day9.num_cols
    /\ day9' = [day9 EXCEPT !.pc = "rows"]
    /\ UNCHANGED <<day5, day6, day7, day8, day11, day14, day15, day18, day16>>

\* day9.py:106-107
Day9Return ==
    /\ day9.pc = "rows"
    /\ day9.row_iter = day9.num_rows
    /\ day9' = [day9 EXCEPT !.pc = "done",
                            !.basins_sizes = SortList(day9.basins_sizes)]
    /\ UNCHANGED <<day5, day6, day7, day8, day11, day14, day15, day18, day16>>

NextDay9 ==
    Day9NextRow \/ Day9Basin \/ Day9SkipCell \/ Day9EndRow \/ Day9Return

SpecDay9 == InitDay9 /\ [][NextDay9]_vars

\* The cells of a height map that are not 9.
Day9BasinCells(s) ==
    {c \in Range(s.num_rows) \X Range(s.num_cols) : s.height_map[c[1]][c[2]] # 9}

Day9Adjacent(a, b) == Abs(a[1] - b[1]) + Abs(a[2] - b[2]) = 1

\* The 4-connected component of a set of cells, by closure.
RECURSIVE Day9Component(_, _)
Day9Component(s, cells) ==
    LET more == {c \in Day9BasinCells(s) :
                    \E b \in cells : Day9Adjacent(b, c)} \cup cells
    IN IF more = cells THEN cells ELSE Day9Component(s, more)

Day9Components(s) == {Day9Component(s, {c}) : c \in Day9BasinCells(s)}

RECURSIVE Day9SortedSizes(_)
Day9SortedSizes(components) ==
    IF components = {} THEN <<>>
    ELSE LET k == CHOOSE x \in components : TRUE
         IN SortInsert(Day9SortedSizes(components \ {k}), Cardinality(k))

\* C2: find_size_basins returns the sorted sizes of all basins, one entry per
\* 4-connected component of non-9 cells, so the sizes sum to the number of
\* non-9 cells.
C2_OneEntryPerBasin ==
    day9.pc = "done" =>
        /\ day9.basins_sizes = Day9SortedSizes(Day9Components(day9))
        /\ SumOver(day9.basins_sizes, DOMAIN day9.basins_sizes)
              = Cardinality(Day9BasinCells(day9))

(***************************************************************************)
(* day7.py: optimal_position                                               *)
(***************************************************************************)
Day7MaxLen == 3
Day7MaxPos == 4

\* day7.py:33 (recursive, cached) and the lambda of day7.py:93.
RECURSIVE cost_function_part2(_)
cost_function_part2(num_steps) ==
    IF num_steps > 0 THEN cost_function_part2(num_steps - 1) + num_steps ELSE 0

Day7CostFunctions == {"identity", "cost_function_part2"}

Day7Cost(cost_function, distance) ==
    IF cost_function = "identity" THEN distance
    ELSE cost_function_part2(distance)

\* day7.py:59,61: sum([cost_function(abs(pos - i)) for pos in positions])
Day7Total(positions, cost_function, i) ==
    SumOver([k \in DOMAIN positions |->
                Day7Cost(cost_function, Abs(positions[k] - i))],
            DOMAIN positions)

\* max(positions)
Day7Max(positions) ==
    CHOOSE m \in {positions[k] : k \in DOMAIN positions} :
        \A k \in DOMAIN positions : positions[k] <= m

\* day7.py:59-60
Day7Call(positions, cost_function) ==
    [pc |-> "loop", positions |-> positions, cost_function |-> cost_function,
     minimum |-> Day7Total(positions, cost_function, 0), i |-> 1,
     stop |-> Day7Max(positions)]

InitDay7 ==
    /\ \E n \in 1 .. Day7MaxLen, cost_function \in Day7CostFunctions :
          \E positions \in [1 .. n -> 0 .. Day7MaxPos] :
             day7 = Day7Call(positions, cost_function)
    /\ day5 = Off /\ day6 = Off /\ day8 = Off /\ day9 = Off /\ day11 = Off
    /\ day14 = Off /\ day15 = Off /\ day18 = Off
    /\ day16 = Off

\* day7.py:60-63: the cost at i is lower, the search goes on.
Day7Improve ==
    /\ day7.pc = "loop"
    /\ day7.i < day7.stop
    /\ LET new == Day7Total(day7.positions, day7.cost_function, day7.i)
       IN /\ new < day7.minimum
          /\ day7' = [day7 EXCEPT !.minimum = new, !.i = @ + 1]
    /\ UNCHANGED <<day5, day6, day8, day9, day11, day14, day15, day18, day16>>

\* day7.py:64-66: the cost at i is not lower, the loop breaks.
Day7Break ==
    /\ day7.pc = "loop"
    /\ day7.i < day7.stop
    /\ Day7Total(day7.positions, day7.cost_function, day7.i) >= day7.minimum
    /\ day7' = [day7 EXCEPT !.pc = "done"]
    /\ UNCHANGED <<day5, day6, day8, day9, day11, day14, day15, day18, day16>>

\* day7.py:60,66: range(1, max(positions)) is exhausted.
Day7Exhausted ==
    /\ day7.pc = "loop"
    /\ day7.i >= day7.stop
    /\ day7' = [day7 EXCEPT !.pc = "done"]
    /\ UNCHANGED <<day5, day6, day8, day9, day11, day14, day15, day18, day16>>

NextDay7 == Day7Improve \/ Day7Break \/ Day7Exhausted

SpecDay7 == InitDay7 /\ [][NextDay7]_vars

\* The targets worth trying: outside min..max of the positions every cost
\* only grows, one position beyond each side is kept to show it.
Day7Targets(positions) == -1 .. (Day7Max(positions) + 1)

\* C3: optimal_position returns the minimum over all target positions of
\* the total cost, for both cost functions.
C3_ReturnsMinimum ==
    day7.pc = "done" =>
        /\ \A p \in Day7Targets(day7.positions) :
              day7.minimum <= Day7Total(day7.positions, day7.cost_function, p)
        /\ \E p \in Day7Targets(day7.positions) :
              day7.minimum = Day7Total(day7.positions, day7.cost_function, p)

(***************************************************************************)
(* day11.py: flash_octopus, simulate_round                                 *)
(***************************************************************************)
Day11MaxRows == 2
Day11MaxCols == 2

\* Energies of the grids handed to simulate_round (a subset of 0..9).
Day11Energies == {0, 8, 9}

\* A variant of the neighbourhood that leaves the diagonals out.
Day11OffsetsNoDiagonal == <<<<-1, 0>>, <<0, -1>>, <<0, 0>>, <<0, 1>>, <<1, 0>>>>

\* day11.py:65-68: (delta_row, delta_col) in the order of the two for loops.
Day11Offsets ==
    <<<<-1, -1>>, <<-1, 0>>, <<-1, 1>>, <<0, -1>>, <<0, 0>>, <<0, 1>>,
      <<1, -1>>, <<1, 0>>, <<1, 1>>>>

\* day11.py:61-80.  st = [grid, flashes]; Day11Adjacent walks the offsets
\* from the k-th on and calls flash_octopus on every neighbour reaching 10.
RECURSIVE flash_octopus(_, _, _, _, _)
RECURSIVE Day11Adjacent(_, _, _, _, _, _)
Day11Adjacent(row, col, st, num_row, num_col, k) ==
    IF k > Len(Day11Offsets) THEN st
    ELSE LET row_adjacent == row + Day11Offsets[k][1]
             col_adjacent == col + Day11Offsets[k][2]
         IN IF /\ 0 <= row_adjacent /\ row_adjacent < num_row
               /\ 0 <= col_adjacent /\ col_adjacent < num_col
               /\ st.grid[row_adjacent][col_adjacent] # -1
            THEN LET grid == [st.grid EXCEPT ![row_adjacent][col_adjacent] = @ + 1]
                 IN IF grid[row_adjacent][col_adjacent] >= 10
                    THEN LET child == flash_octopus(row_adjacent, col_adjacent,
                                                    grid, num_row, num_col)
                         IN Day11Adjacent(row, col,
                               [grid |-> child.grid,
                                flashes |-> st.flashes + child.flashes],
                               num_row, num_col, k + 1)
                    ELSE Day11Adjacent(row, col,
                               [grid |-> grid, flashes |-> st.flashes],
                               num_row, num_col, k + 1)
            ELSE Day11Adjacent(row, col, st, num_row, num_col, k + 1)

flash_octopus(row, col, grid, num_row, num_col) ==
    Day11Adjacent(row, col,
                  [grid |-> [grid EXCEPT ![row][col] = -1], flashes |-> 1],
                  num_row, num_col, 1)

\* day11.py:111-113
Day11Call(grid, num_row, num_col) ==
    [pc |-> "increase", input |-> grid, grid |-> grid, num_row |-> num_row,
     num_col |-> num_col, row |-> 0, col |-> 0, sum_flashes |-> 0]

InitDay11 ==
    /\ \E num_row \in 1 .. Day11MaxRows, num_col \in 1 .. Day11MaxCols :
          \E grid \in [Range(num_row) -> [Range(num_col) -> Day11Energies]] :
             day11 = Day11Call(grid, num_row, num_col)
    /\ day5 = Off /\ day6 = Off /\ day7 = Off /\ day8 = Off /\ day9 = Off
    /\ day14 = Off /\ day15 = Off /\ day18 = Off
    /\ day16 = Off

\* day11.py:114-116: every energy level increases by 1.
Day11Increase ==
    /\ day11.pc = "increase"
    /\ day11' = [day11 EXCEPT
          !.pc = "flash",
          !.grid = [r \in Range(day11.num_row) |->
                       [c \in Range(day11.num_col) |-> day11.grid[r][c] + 1]]]
    /\ UNCHANGED <<day5, day6, day7, day8, day9, day14, day15, day18, day16>>

\* The next cell of the scan of day11.py:117-118.
Day11Advance(s) ==
    IF s.col + 1 < s.num_col THEN [s EXCEPT !.col = @ + 1]
    ELSE IF s.row + 1 < s.num_row THEN [s EXCEPT !.row = @ + 1, !.col = 0]
    ELSE [s EXCEPT !.pc = "reset"]

\* day11.py:119-121: the scanned cell is at 10 or more and flashes.
Day11Flash ==
    /\ day11.pc = "flash"
    /\ day11.grid[day11.row][day11.col] >= 10
    /\ LET r == flash_octopus(day11.row, day11.col, day11.grid,
                              day11.num_row, day11.num_col)
       IN day11' = Day11Advance([day11 EXCEPT
                       !.grid = r.grid, !.sum_flashes = @ + r.flashes])
    /\ UNCHANGED <<day5, day6, day7, day8, day9, day14, day15, day18, day16>>

\* day11.py:119: the scanned cell is below 10 (or already flashed).
Day11NoFlash ==
    /\ day11.pc = "flash"
    /\ day11.grid[day11.row][day11.col] < 10
    /\ day11' = Day11Advance(day11)
    /\ UNCHANGED <<day5, day6, day7, day8, day9, day14, day15, day18, day16>>

\* day11.py:122-126: the reset loop.  Its inner loop runs over
\* range(num_row), so it visits the columns 0..num_row-1 of every row.
Day11Reset ==
    /\ day11.pc = "reset"
    /\ day11.num_row <= day11.num_col
    /\ day11' = [day11 EXCEPT
          !.pc = "done",
          !.grid = [r \in Range(day11.num_row) |->
                       [c \in Range(day11.num_col) |->
                           IF c \in Range(day11.num_row) /\ day11.grid[r][c] = -1
                           THEN 0 ELSE day11.grid[r][c]]]]
    /\ UNCHANGED <<day5, day6, day7, day8, day9, day14, day15, day18, day16>>

\* day11.py:123-124: with more rows than columns grid[0][num_col] is read
\* and the list raises IndexError; row 0 was reset by then.
Day11ResetRaises ==
    /\ day11.pc = "reset"
    /\ day11.num_row > day11.num_col
    /\ day11' = [day11 EXCEPT
          !.pc = "IndexError",
          !.grid = [@ EXCEPT ![0] = [c \in Range(day11.num_col) |->
                       IF day11.grid[0][c] = -1 THEN 0 ELSE day11.grid[0][c]]]]
    /\ UNCHANGED <<day5, day6, day7, day8, day9, day14, day15, day18, day16>>

NextDay11 ==
    \/ Day11Increase \/ Day11Flash \/ Day11NoFlash
    \/ Day11Reset \/ Day11ResetRaises

SpecDay11 == InitDay11 /\ [][NextDay11]_vars

Day11Cells(s) == Range(s.num_row) \X Range(s.num_col)

\* The step of the docstring (day11.py:86-94) as a least fixed point: an
\* octopus flashes when its energy plus one plus the number of its flashing
\* neighbours (diagonals included) is above 9.
Day11Around(s, c) ==
    {n \in Day11Cells(s) :
        n # c /\ Abs(n[1] - c[1]) <= 1 /\ Abs(n[2] - c[2]) <= 1}

RECURSIVE Day11Flashing(_, _)
Day11Flashing(s, F) ==
    LET more == {c \in Day11Cells(s) :
                    s.input[c[1]][c[2]] + 1
                       + Cardinality(Day11Around(s, c) \cap F) > 9}
    IN IF more = F THEN F ELSE Day11Flashing(s, more)

Day11Flashed(s) == Day11Flashing(s, {})

\* C4: simulate_round returns, on every rectangular grid, a grid whose cells
\* are all in 0..9, with every octopus that flashed at 0.
C4_ReturnsResetGrid ==
    day11.pc \in {"done", "IndexError"} =>
        /\ day11.pc = "done"
        /\ \A c \in Day11Cells(day11) : day11.grid[c[1]][c[2]] \in 0 .. 9
        /\ \A c \in Day11Flashed(day11) : day11.grid[c[1]][c[2]] = 0

\* C5: an octopus flashes at most once in a step: once the scan is over the
\* flash count is the number of distinct cells that rose above 9 (by their
\* own energy or by their neighbours' flashes, diagonals included), so it
\* is at most rows x columns, and exactly those cells carry the marker.
C5_FlashCount ==
    /\ day11.pc \in {"reset", "done", "IndexError"} =>
          /\ day11.sum_flashes = Cardinality(Day11Flashed(day11))
          /\ day11.sum_flashes <= day11.num_row * day11.num_col
    /\ day11.pc = "reset" =>
          {c \in Day11Cells(day11) : day11.grid[c[1]][c[2]] = -1}
             = Day11Flashed(day11)

\* A returned step in which an octopus that started at 8 flashed, pushed
\* above 9 by two flashing neighbours.
C5_Witness ==
    /\ day11.pc = "done"
    /\ day11.sum_flashes >= 3
    /\ \E c \in Day11Flashed(day11) : day11.input[c[1]][c[2]] = 8

(***************************************************************************)
(* day8.py: find_mapping, decode                                           *)
(***************************************************************************)
\* day8.py:98: the segments, in the order the code walks them.
Day8Segments == <<"a", "b", "c", "d", "e", "f", "g">>

Day8SegmentSet == {Day8Segments[i] : i \in DOMAIN Day8Segments}

\* day8.py:135-146: the digits dictionary; entry d + 1 is the key of digit d.
Day8Digits ==
    << <<"a", "b", "c", "e", "f", "g">>,
       <<"c", "f">>,
       <<"a", "c", "d", "e", "g">>,
       <<"a", "c", "d", "f", "g">>,
       <<"b", "c", "d", "f">>,
       <<"a", "b", "d", "f", "g">>,
       <<"a", "b", "d", "e", "f", "g">>,
       <<"a", "c", "f">>,
       <<"a", "b", "c", "d", "e", "f", "g">>,
       <<"a", "b", "c", "d", "f", "g">> >>

\* The orders in which the ten reference patterns are listed.
Day8Orders ==
    { <<0, 1, 2, 3, 4, 5, 6, 7, 8, 9>>, <<9, 8, 7, 6, 5, 4, 3, 2, 1, 0>> }

\* The orders of the letters inside a pattern.
Day8LetterOrders == {"wiring", "reversed", "sorted"}

\* The output values that are decoded.
Day8Outputs == { <<0, 4, 7>>, <<5, 3, 9, 2, 6, 1, 8>> }

\* "segment in digit" on strings of single letters.
Day8In(segment, digit) == \E i \in DOMAIN digit : digit[i] = segment

\* day8.py:152: "".join(sorted(decoded_segments)): the letters equal to
\* "a", then those equal to "b", and so on.
RECURSIVE Day8SortedFrom(_, _)
Day8SortedFrom(digit, k) ==
    IF k > Len(Day8Segments) THEN <<>>
    ELSE SelectSeq(digit, LAMBDA x : x = Day8Segments[k])
            \o Day8SortedFrom(digit, k + 1)

Day8Sorted(digit) == Day8SortedFrom(digit, 1)

\* day8.py:50-52, 75-77: the loop keeps the last pattern of the length; the
\* empty string stands for a name that was never bound.
Day8OfLength(reference, n) ==
    LET found == {i \in DOMAIN reference : Len(reference[i]) = n}
    IN IF found = {} THEN <<>>
       ELSE reference[CHOOSE i \in found : \A j \in found : j <= i]

\* result[key] = value on a dict
Day8Set(result, key, value) == (key :> value) @@ result

\* A variant of the disambiguation loop whose two branches assign alike.
RECURSIVE Day8DisambiguateSameBranch(_, _, _, _, _, _)
Day8DisambiguateSameBranch(reference, i, option, present, absent, result) ==
    IF i > Len(reference) THEN result
    ELSE LET digit == reference[i]
         IN IF Len(digit) = 6
               /\ Day8In(option[1], digit) # Day8In(option[2], digit)
            THEN Day8DisambiguateSameBranch(reference, i + 1, option, present, absent,
                    Day8Set(Day8Set(result, option[1], present), option[2], absent))
            ELSE Day8DisambiguateSameBranch(reference, i + 1, option, present, absent,
                    result)

\* day8.py:56-63, 85-92, 103-110: the three loops over the patterns of six
\* segments.  A pattern holding exactly one letter of the option names that
\* letter present and the other one absent.
RECURSIVE Day8Disambiguate(_, _, _, _, _, _)
Day8Disambiguate(reference, i, option, present, absent, result) ==
    IF i > Len(reference) THEN result
    ELSE LET digit == reference[i]
         IN IF Len(digit) = 6
               /\ Day8In(option[1], digit) # Day8In(option[2], digit)
            THEN IF Day8In(option[1], digit)
                 THEN Day8Disambiguate(reference, i + 1, option, present, absent,
                        Day8Set(Day8Set(result, option[1], present), option[2], absent))
                 ELSE Day8Disambiguate(reference, i + 1, option, present, absent,
                        Day8Set(Day8Set(result, option[2], present), option[1], absent))
            ELSE Day8Disambiguate(reference, i + 1, option, present, absent, result)

\* day8.py:67-71: every letter of a pattern of three segments that is not
\* in c_f_option is named "a".
RECURSIVE Day8Seven(_, _, _, _)
Day8Seven(reference, i, c_f_option, result) ==
    IF i > Len(reference) THEN result
    ELSE LET digit == reference[i]
             named == {digit[k] : k \in {k \in DOMAIN digit :
                                           ~Day8In(digit[k], c_f_option)}}
         IN IF Len(digit) = 3
            THEN Day8Seven(reference, i + 1, c_f_option,
                           [s \in named |-> "a"] @@ result)
            ELSE Day8Seven(reference, i + 1, c_f_option, result)

\* day8.py:75-80: the letters of the pattern of four segments not in
\* c_f_option.
Day8Four(reference, c_f_option) ==
    SelectSeq(Day8OfLength(reference, 4), LAMBDA s : ~Day8In(s, c_f_option))

\* day8.py:97-100: the segments without a name yet.
Day8Unnamed(result) ==
    SelectSeq(Day8Segments, LAMBDA s : s \notin DOMAIN result)

Day8Fail(line) == [ok |-> FALSE, line |-> line, result |-> <<>>]

\* day8.py:47-112
find_mapping(reference) ==
    LET c_f_option == Day8OfLength(reference, 2)
    IN IF Len(c_f_option) # 2 THEN Day8Fail(53) ELSE
    LET six == Day8Disambiguate(reference, 1, c_f_option, "f", "c", <<>>)
    IN IF Cardinality(DOMAIN six) # 2 THEN Day8Fail(64) ELSE
    LET seven == Day8Seven(reference, 1, c_f_option, six)
    IN IF Cardinality(DOMAIN seven) # 3 THEN Day8Fail(72) ELSE
    LET b_d_option == Day8Four(reference, c_f_option)
    IN IF Len(b_d_option) # 2 THEN Day8Fail(81) ELSE
    LET zero == Day8Disambiguate(reference, 1, b_d_option, "b", "d", seven)
    IN IF Cardinality(DOMAIN zero) # 5 THEN Day8Fail(93) ELSE
    LET e_g_option == Day8Unnamed(zero)
    IN IF Len(e_g_option) # 2 THEN Day8Fail(101) ELSE
    LET nine == Day8Disambiguate(reference, 1, e_g_option, "g", "e", zero)
    IN IF Cardinality(DOMAIN nine) # 7 THEN Day8Fail(111)
       ELSE [ok |-> TRUE, line |-> 112, result |-> nine]

\* int(result) on a string of decimal digits (day8.py:154)
RECURSIVE Day8Int(_)
Day8Int(result) ==
    IF result = <<>> THEN 0
    ELSE 10 * Day8Int(SubSeq(result, 1, Len(result) - 1)) + result[Len(result)]

\* day8.py:149-153: one digit: every letter is mapped, the letters are
\* sorted and the digit is looked up.  -1 stands for the KeyError of a
\* letter missing in the mapping or of a key missing in digits.
Day8DecodeDigit(digit, mapping) ==
    IF \E i \in DOMAIN digit : digit[i] \notin DOMAIN mapping THEN -1
    ELSE LET decoded_segments ==
                 Day8Sorted([i \in DOMAIN digit |-> mapping[digit[i]]])
             keys == {d \in DOMAIN Day8Digits : Day8Digits[d] = decoded_segments}
         IN IF keys = {} THEN -1 ELSE (CHOOSE d \in keys : TRUE) - 1

\* day8.py:147-154
decode(encoded_digits, mapping) ==
    LET result == [k \in DOMAIN encoded_digits |->
                      Day8DecodeDigit(encoded_digits[k], mapping)]
    IN IF \A k \in DOMAIN result : result[k] >= 0
       THEN [ok |-> TRUE, value |-> Day8Int(result)]
       ELSE [ok |-> FALSE, value |-> 0]

\* A digit as the display shows it under a wiring, its letters in an order.
Day8Scramble(digit, wiring, letters) ==
    LET wired == [i \in DOMAIN Day8Digits[digit + 1] |->
                     wiring[Day8Digits[digit + 1][i]]]
    IN CASE letters = "wiring" -> wired
         [] letters = "reversed" ->
               [i \in DOMAIN wired |-> wired[Len(wired) + 1 - i]]
         [] OTHER -> Day8Sorted(wired)

InitDay8 ==
    /\ \E wiring \in Permutations(Day8SegmentSet), order \in Day8Orders,
          letters \in Day8LetterOrders :
          day8 = [pc |-> "call", wiring |-> wiring, letters |-> letters,
                  reference |-> [i \in DOMAIN order |->
                                    Day8Scramble(order[i], wiring, letters)],
                  mapping |-> <<>>, output_values |-> <<>>, value |-> 0]
    /\ day5 = Off /\ day6 = Off /\ day7 = Off /\ day9 = Off /\ day11 = Off
    /\ day14 = Off /\ day15 = Off /\ day18 = Off
    /\ day16 = Off

\* day8.py:193: find_mapping(input_values)
Day8FindMapping ==
    /\ day8.pc = "call"
    /\ LET found == find_mapping(day8.reference)
       IN day8' = [day8 EXCEPT
             !.pc = IF found.ok THEN "mapped" ELSE "AssertionError",
             !.mapping = found.result]
    /\ UNCHANGED <<day5, day6, day7, day9, day11, day14, day15, day18, day16>>

\* day8.py:193: decode(output_values, mapping)
Day8Decode ==
    /\ day8.pc = "mapped"
    /\ \E output \in Day8Outputs :
          LET output_values == [k \in DOMAIN output |->
                  Day8Scramble(output[k], day8.wiring, day8.letters)]
              decoded == decode(output_values, day8.mapping)
          IN day8' = [day8 EXCEPT
                !.pc = IF decoded.ok THEN "done" ELSE "KeyError",
                !.output_values = output, !.value = decoded.value]
    /\ UNCHANGED <<day5, day6, day7, day9, day11, day14, day15, day18, day16>>

NextDay8 == Day8FindMapping \/ Day8Decode

SpecDay8 == InitDay8 /\ [][NextDay8]_vars

\* C6: for every wiring of the seven segments find_mapping passes its
\* assertions and returns the map from each scrambled segment back to its
\* true segment, and decode then returns the number that was displayed.
C6_MappingInvertsWiring ==
    day8.pc # "call" =>
        /\ day8.pc \in {"mapped", "done"}
        /\ DOMAIN day8.mapping = Day8SegmentSet
        /\ \A s \in Day8SegmentSet : day8.mapping[day8.wiring[s]] = s
        /\ day8.pc = "done" => day8.value = Day8Int(day8.output_values)

\* A number with a leading zero decoded under a wiring that moves every
\* segment.
C6_Witness ==
    /\ day8.pc = "done"
    /\ day8.output_values = <<0, 4, 7>>
    /\ day8.value = 47
    /\ \A s \in Day8SegmentSet : day8.wiring[s] # s

(***************************************************************************)
(* day15.py: find_lowest_risk_level                                        *)
(***************************************************************************)
Day15MaxRows == 2
Day15MaxCols == 2
Day15MaxRepetitions == 2

\* Risk levels of the cave maps (a subset of 1..9).
Day15Risks == {1, 9}

\* day15.py:55-56
detlta_row == <<-1, 0, 1, 0>>

delt_col == <<0, 1, 0, -1>>

\* Python's order on the tuples (dist, row, col).
Day15Less(a, b) ==
    \/ a[1] < b[1]
    \/ a[1] = b[1] /\ a[2] < b[2]
    \/ a[1] = b[1] /\ a[2] = b[2] /\ a[3] < b[3]

\* A variant of the push that appends: the list is a queue, not a heap.
Day15PushAppend(positions, item) == Append(positions, item)

\* heapq.heappush (day15.py:92): the heap is kept as the sorted list of its
\* tuples, so that heappop (day15.py:64) takes the head.
RECURSIVE heappush(_, _)
heappush(positions, item) ==
    IF positions = <<>> THEN <<item>>
    ELSE IF Day15Less(item, Head(positions)) THEN <<item>> \o positions
    ELSE <<Head(positions)>> \o heappush(Tail(positions), item)

\* day15.py:89-94: the four neighbours are pushed with the cost of the cell.
RECURSIVE Day15PushNeighbours(_, _, _, _, _)
Day15PushNeighbours(positions, cost, row, col, delta) ==
    IF delta > 4 THEN positions
    ELSE Day15PushNeighbours(
            heappush(positions,
                     <<cost, row + detlta_row[delta], col + delt_col[delta]>>),
            cost, row, col, delta + 1)

\* day15.py:78-79
RECURSIVE Day15Wrap(_)
Day15Wrap(val) == IF val > 9 THEN Day15Wrap(val - 9) ELSE val

\* day15.py:73-79: the risk of a cell of the tiled map.
Day15Val(s, row, col) ==
    Day15Wrap(s.risk_level[row % s.num_rows][col % s.num_cols]
              + (row \div s.num_rows) + (col \div s.num_cols))

\* day15.py:65-70
Day15Outside(s, row, col) ==
    \/ row < 0 \/ row >= s.repetitions * s.num_rows
    \/ col < 0 \/ col >= s.repetitions * s.num_cols

\* day15.py:86
Day15IsTarget(s, row, col) ==
    /\ row = s.repetitions * s.num_rows - 1
    /\ col = s.repetitions * s.num_cols - 1

\* day15.py:59: the None of a cell without a cost yet.
Day15None == -1

\* day15.py:82: cost_map holds None or a higher cost.
Day15Lower(s, row, col, rc_cost) ==
    \/ s.cost_map[row][col] = Day15None
    \/ rc_cost < s.cost_map[row][col]

\* day15.py:58-62
Day15Call(risk_level, num_rows, num_cols, repetitions) ==
    [pc |-> "loop", risk_level |-> risk_level, num_rows |-> num_rows,
     num_cols |-> num_cols, repetitions |-> repetitions,
     cost_map |-> [row \in Range(repetitions * num_rows) |->
                     [col \in Range(repetitions * num_cols) |-> Day15None]],
     positions |-> <<<<0, 0, 0>>>>, result |-> 0]

InitDay15 ==
    /\ \E num_rows \in 1 .. Day15MaxRows, num_cols \in 1 .. Day15MaxCols,
          repetitions \in 1 .. Day15MaxRepetitions :
          \E risk_level \in [Range(num_rows) -> [Range(num_cols) -> Day15Risks]] :
             day15 = Day15Call(risk_level, num_rows, num_cols, repetitions)
    /\ day5 = Off /\ day6 = Off /\ day7 = Off /\ day8 = Off /\ day9 = Off
    /\ day11 = Off /\ day14 = Off /\ day18 = Off
    /\ day16 = Off

\* day15.py:64-71: the popped position lies outside the tiled map.
Day15OutOfRange ==
    /\ day15.pc = "loop"
    /\ day15.positions # <<>>
    /\ LET p == Head(day15.positions)
       IN /\ Day15Outside(day15, p[2], p[3])
          /\ day15' = [day15 EXCEPT !.positions = Tail(@)]
    /\ UNCHANGED <<day5, day6, day7, day8, day9, day11, day14, day18, day16>>

\* day15.py:64-85: the popped position does not lower the cost of its cell.
Day15NotLower ==
    /\ day15.pc = "loop"
    /\ day15.positions # <<>>
    /\ LET p == Head(day15.positions)
       IN /\ ~Day15Outside(day15, p[2], p[3])
          /\ ~Day15Lower(day15, p[2], p[3], p[1] + Day15Val(day15, p[2], p[3]))
          /\ day15' = [day15 EXCEPT !.positions = Tail(@)]
    /\ UNCHANGED <<day5, day6, day7, day8, day9, day11, day14, day18, day16>>

\* day15.py:64-94: the cost of the cell is lowered and its four neighbours
\* are pushed with that cost.
Day15Expand ==
    /\ day15.pc = "loop"
    /\ day15.positions # <<>>
    /\ LET p == Head(day15.positions)
           row == p[2]
           col == p[3]
       IN /\ ~Day15Outside(day15, row, col)
          /\ LET rc_cost == p[1] + Day15Val(day15, row, col)
             IN /\ Day15Lower(day15, row, col, rc_cost)
                /\ ~Day15IsTarget(day15, row, col)
                /\ day15' = [day15 EXCEPT
                      !.cost_map[row][col] = rc_cost,
                      !.positions =
                         Day15PushNeighbours(Tail(@), rc_cost, row, col, 1)]
    /\ UNCHANGED <<day5, day6, day7, day8, day9, day11, day14, day18, day16>>

\* day15.py:64-87, 95-98: the popped position is the bottom-right cell; the
\* loop breaks and the cost without the start cell is returned.
Day15Target ==
    /\ day15.pc = "loop"
    /\ day15.positions # <<>>
    /\ LET p == Head(day15.positions)
           row == p[2]
           col == p[3]
       IN /\ ~Day15Outside(day15, row, col)
          /\ LET rc_cost == p[1] + Day15Val(day15, row, col)
             IN /\ Day15Lower(day15, row, col, rc_cost)
                /\ Day15IsTarget(day15, row, col)
                /\ day15' = [day15 EXCEPT
                      !.pc = "done",
                      !.cost_map[row][col] = rc_cost,
                      !.positions = Tail(@),
                      !.result = rc_cost - day15.risk_level[0][0]]
    /\ UNCHANGED <<day5, day6, day7, day8, day9, day11, day14, day18, day16>>

NextDay15 == Day15OutOfRange \/ Day15NotLower \/ Day15Expand \/ Day15Target

SpecDay15 == InitDay15 /\ [][NextDay15]_vars

\* The cheapest path by relaxation: the cost of the start cell is 0, every
\* other cell costs its risk plus the cheapest 4-connected neighbour.
Day15Cells(s) ==
    Range(s.repetitions * s.num_rows) \X Range(s.repetitions * s.num_cols)

\* The risk of a tiled cell as the puzzle states it: the base risk plus the
\* tile row and tile column index, wrapped from above 9 back into 1..9.
Day15TileRisk(s, c) ==
    ((s.risk_level[c[1] % s.num_rows][c[2] % s.num_cols]
        + (c[1] \div s.num_rows) + (c[2] \div s.num_cols) - 1) % 9) + 1

Day15Unreached(s) == 10 * Cardinality(Day15Cells(s))

Day15Least(S) == CHOOSE x \in S : \A y \in S : x <= y

RECURSIVE Day15Relax(_, _)
Day15Relax(s, dist) ==
    LET next == [c \in Day15Cells(s) |->
            Day15Least({dist[c]} \cup
                {dist[n] + Day15TileRisk(s, c) :
                    n \in {<<c[1] - 1, c[2]>>, <<c[1] + 1, c[2]>>,
                           <<c[1], c[2] - 1>>, <<c[1], c[2] + 1>>}
                          \cap Day15Cells(s)})]
    IN IF next = dist THEN dist ELSE Day15Relax(s, next)

Day15Lowest(s) ==
    Day15Relax(s, [c \in Day15Cells(s) |->
                      IF c = <<0, 0>> THEN 0 ELSE Day15Unreached(s)])
        [<<s.repetitions * s.num_rows - 1, s.repetitions * s.num_cols - 1>>]

\* C7: find_lowest_risk_level returns the minimum over all 4-connected paths
\* from the top-left to the bottom-right cell of the tiled map of the sum of
\* the risks of the cells entered; the loop never runs dry before the first
\* pop of the target, and breaking there is never too early.
C7_LowestRisk ==
    /\ day15.pc = "done" => day15.result = Day15Lowest(day15)
    /\ day15.pc = "loop" => day15.positions # <<>>

\* A returned search on a tiled map with wrapped risks.
C7_Witness ==
    /\ day15.pc = "done"
    /\ day15.repetitions = 2
    /\ day15.num_rows = 2 /\ day15.num_cols = 2
    /\ day15.risk_level[0][1] = 9 /\ day15.risk_level[1][0] = 9
    /\ day15.result > 6

(***************************************************************************)
(* day18.py: explode, split, add                                           *)
(*                                                                         *)
(* A regular number n is the tuple <<n>>, a pair is the tuple <<l, r>>, and *)
(* None is the empty tuple.                                                *)
(***************************************************************************)
Day18MaxLeaves == 7

\* Regular numbers of the operands (a subset of 0..9).
Day18Regulars == {1, 9}

Day18None == <<>>

\* isinstance(number, int)
Day18IsInt(number) == Len(number) = 1

\* day18.py:34-38
RECURSIVE add_left(_, _)
add_left(number, element) ==
    IF element = Day18None THEN number
    ELSE IF Day18IsInt(number) THEN <<number[1] + element[1]>>
    ELSE <<add_left(number[1], element), number[2]>>

\* day18.py:61-65
RECURSIVE add_right(_, _)
add_right(number, element) ==
    IF element = Day18None THEN number
    ELSE IF Day18IsInt(number) THEN <<number[1] + element[1]>>
    ELSE <<number[1], add_right(number[2], element)>>

Day18NotExploded(number) ==
    [exp |-> FALSE, left |-> Day18None, number |-> number, right |-> Day18None]

\* The result of a recursive call is a local variable of the code; here it
\* is the element of a one-element set, so that it is computed once.

\* day18.py:107-110: the right part was tried.
Day18ExplodeRight(number, second) ==
    IF second.exp
    THEN [exp |-> TRUE, left |-> Day18None,
          number |-> <<add_right(number[1], second.left), second.number>>,
          right |-> second.right]
    ELSE Day18NotExploded(number)

\* A variant of explode that lets pairs nest one level deeper.
RECURSIVE Day18ExplodeDeeper(_, _)
RECURSIVE Day18ExplodeDeeperLeft(_, _, _)
Day18ExplodeDeeperLeft(number, nested_depth, first) ==
    IF first.exp
    THEN [exp |-> TRUE, left |-> first.left,
          number |-> <<first.number, add_left(number[2], first.right)>>,
          right |-> Day18None]
    ELSE CHOOSE out \in
             {Day18ExplodeRight(number, second) :
                 second \in {Day18ExplodeDeeper(number[2], nested_depth + 1)}} :
             TRUE

Day18ExplodeDeeper(number, nested_depth) ==
    IF Day18IsInt(number) THEN Day18NotExploded(number)
    ELSE IF nested_depth = 5
    THEN [exp |-> TRUE, left |-> number[1], number |-> <<0>>,
          right |-> number[2]]
    ELSE CHOOSE out \in
             {Day18ExplodeDeeperLeft(number, nested_depth, first) :
                 first \in {Day18ExplodeDeeper(number[1], nested_depth + 1)}} :
             TRUE

\* day18.py:99-110.  explode tries the left part (day18.py:104), and
\* Day18ExplodeLeft goes on from what that returned (day18.py:105-110).
RECURSIVE explode(_, _)
RECURSIVE Day18ExplodeLeft(_, _, _)
Day18ExplodeLeft(number, nested_depth, first) ==
    IF first.exp
    THEN [exp |-> TRUE, left |-> first.left,
          number |-> <<first.number, add_left(number[2], first.right)>>,
          right |-> Day18None]
    ELSE CHOOSE out \in
             {Day18ExplodeRight(number, second) :
                 second \in {explode(number[2], nested_depth + 1)}} : TRUE

explode(number, nested_depth) ==
    IF Day18IsInt(number) THEN Day18NotExploded(number)
    ELSE IF nested_depth = 4
    THEN [exp |-> TRUE, left |-> number[1], number |-> <<0>>,
          right |-> number[2]]
    ELSE CHOOSE out \in
             {Day18ExplodeLeft(number, nested_depth, first) :
                 first \in {explode(number[1], nested_depth + 1)}} : TRUE

\* day18.py:147-148: the right part was tried.
Day18SplitRight(number, right_part) ==
    [change |-> right_part.change, number |-> <<number[1], right_part.number>>]

\* day18.py:139-148; math.ceil(number / 2) is (number + 1) // 2.  split
\* tries the left part (day18.py:144), Day18SplitLeft goes on from there.
RECURSIVE split(_)
RECURSIVE Day18SplitLeft(_, _)
Day18SplitLeft(number, left_part) ==
    IF left_part.change
    THEN [change |-> TRUE, number |-> <<left_part.number, number[2]>>]
    ELSE CHOOSE out \in
             {Day18SplitRight(number, right_part) :
                 right_part \in {split(number[2])}} : TRUE

split(number) ==
    IF Day18IsInt(number)
    THEN IF number[1] >= 10
         THEN [change |-> TRUE,
               number |-> << <<number[1] \div 2>>, <<(number[1] + 1) \div 2>> >>]
         ELSE [change |-> FALSE, number |-> number]
    ELSE CHOOSE out \in
             {Day18SplitLeft(number, left_part) :
                 left_part \in {split(number[1])}} : TRUE

\* The numbers with a count of regular numbers and pairs nested at most
\* depth deep.
RECURSIVE Day18Numbers(_, _)
Day18Numbers(leaves, depth) ==
    IF leaves = 1 THEN {<<n>> : n \in Day18Regulars}
    ELSE IF depth = 0 THEN {}
    ELSE UNION {{<<l, r>> : l \in Day18Numbers(k, depth - 1),
                           r \in Day18Numbers(leaves - k, depth - 1)} :
                k \in 1 .. (leaves - 1)}

\* day18.py:167
InitDay18 ==
    /\ \E leaves_1 \in 2 .. Day18MaxLeaves, leaves_2 \in 2 .. Day18MaxLeaves :
          /\ leaves_1 + leaves_2 <= Day18MaxLeaves
          /\ \E number_1 \in Day18Numbers(leaves_1, 4),
                number_2 \in Day18Numbers(leaves_2, 4) :
                day18 = [pc |-> "loop", number_1 |-> number_1,
                         number_2 |-> number_2,
                         result |-> <<number_1, number_2>>,
                         explosions |-> 0, splits |-> 0]
    /\ day5 = Off /\ day6 = Off /\ day7 = Off /\ day8 = Off /\ day9 = Off
    /\ day11 = Off /\ day14 = Off /\ day15 = Off
    /\ day16 = Off

\* day18.py:169-171: a pair explodes and the loop starts over.
Day18Explode ==
    /\ day18.pc = "loop"
    /\ \E exploded \in {explode(day18.result, 0)} :
          /\ exploded.exp
          /\ day18' = [day18 EXCEPT !.result = exploded.number,
                                    !.explosions = @ + 1]
    /\ UNCHANGED <<day5, day6, day7, day8, day9, day11, day14, day15, day16>>

\* day18.py:169-174: nothing explodes, a regular number splits.
Day18Split ==
    /\ day18.pc = "loop"
    /\ ~explode(day18.result, 0).exp
    /\ \E splitted \in {split(day18.result)} :
          /\ splitted.change
          /\ day18' = [day18 EXCEPT !.result = splitted.number,
                                    !.splits = @ + 1]
    /\ UNCHANGED <<day5, day6, day7, day8, day9, day11, day14, day15, day16>>

\* day18.py:173-175: nothing explodes and nothing splits.
Day18Return ==
    /\ day18.pc = "loop"
    /\ ~explode(day18.result, 0).exp
    /\ ~split(day18.result).change
    /\ day18' = [day18 EXCEPT !.pc = "done"]
    /\ UNCHANGED <<day5, day6, day7, day8, day9, day11, day14, day15, day16>>

NextDay18 == Day18Explode \/ Day18Split \/ Day18Return

\* The loop of add runs on its own: a step that can be taken is taken.
SpecDay18 == InitDay18 /\ [][NextDay18]_vars /\ WF_vars(NextDay18)

\* How deep the pairs of a number nest.
RECURSIVE Day18Depth(_)
Day18Depth(number) ==
    IF Day18IsInt(number) THEN 0
    ELSE LET l == Day18Depth(number[1])
             r == Day18Depth(number[2])
         IN 1 + (IF l > r THEN l ELSE r)

RECURSIVE Day18Largest(_)
Day18Largest(number) ==
    IF Day18IsInt(number) THEN number[1]
    ELSE LET l == Day18Largest(number[1])
             r == Day18Largest(number[2])
         IN IF l > r THEN l ELSE r

\* No pair nested inside four pairs, every regular number below 10.
Day18Reduced(number) == Day18Depth(number) <= 4 /\ Day18Largest(number) < 10

\* C8: add of two reduced numbers terminates, and what it returns is reduced.
C8_AddReduces ==
    /\ [](day18.pc = "done" => Day18Reduced(day18.result))
    /\ <>(day18.pc = "done")

\* A returned sum that took explosions and splits.
C8_Witness ==
    /\ day18.pc = "done"
    /\ day18.explosions >= 2
    /\ day18.splits >= 2
    /\ Day18Depth(day18.result) = 4


(***************************************************************************)
(* day14.py: breakdown_structure, get_puzzel_answer, part_1                *)
(* A string is a function on 0..n-1 of elements, a pair of letters is the  *)
(* tuple of its two letters, and a Counter is a function on its keys.      *)
(***************************************************************************)
Day14MaxLen == 4
Day14MaxSteps == 3

Day14Elements == {"A", "B"}

Day14Pairs == Day14Elements \X Day14Elements

\* Counter()
Day14Counter == [key \in {} |-> 0]

\* counter[key] = count, a variant of Day14Add that forgets the old count.
Day14Assign(counter, key, count) ==
    [k \in DOMAIN counter \cup {key} |->
        IF k = key THEN count ELSE counter[k]]

\* counter[key] += count; a key that is missing counts as 0.
Day14Add(counter, key, count) ==
    [k \in DOMAIN counter \cup {key} |->
        IF k # key THEN counter[k]
        ELSE IF key \in DOMAIN counter THEN counter[key] + count
        ELSE count]

\* day14.py:54-55: the two pairs that poly_pair breaks down into.
Day14BreakPair(new_counter, poly_pair, rules, count) ==
    Day14Add(Day14Add(new_counter, <<poly_pair[1], rules[poly_pair]>>, count),
             <<rules[poly_pair], poly_pair[2]>>, count)

\* day14.py:53-55: the loop over the keys that are still to visit.
RECURSIVE Day14BreakdownLoop(_, _, _, _)
Day14BreakdownLoop(keys, new_counter, connection_counter, rules) ==
    IF keys = {} THEN new_counter
    ELSE LET poly_pair == CHOOSE key \in keys : TRUE
         IN  Day14BreakdownLoop(keys \ {poly_pair},
                                Day14BreakPair(new_counter, poly_pair, rules,
                                               connection_counter[poly_pair]),
                                connection_counter, rules)

\* day14.py:52-56
breakdown_structure(connection_counter, rules) ==
    Day14BreakdownLoop(DOMAIN connection_counter, Day14Counter,
                       connection_counter, rules)

\* day14.py:77-78: the loop over the keys that are still to visit.
RECURSIVE Day14CharLoop(_, _, _)
Day14CharLoop(keys, char_counter, connection_counter) ==
    IF keys = {} THEN char_counter
    ELSE LET k == CHOOSE key \in keys : TRUE
         IN  Day14CharLoop(keys \ {k},
                           Day14Add(char_counter, k[1], connection_counter[k]),
                           connection_counter)

\* max(values) - min(values) of a counter that has a key.
Day14Spread(char_counter) ==
    LET values == {char_counter[k] : k \in DOMAIN char_counter}
    IN  (CHOOSE most \in values : \A v \in values : v <= most)
        - (CHOOSE least \in values : \A v \in values : least <= v)

\* day14.py:76-81
get_puzzel_answer(connection_counter, poly_template) ==
    Day14Spread(
        Day14Add(Day14CharLoop(DOMAIN connection_counter, Day14Counter,
                               connection_counter),
                 poly_template[Size(poly_template) - 1], 1))

\* day14.py:103-105: the pairs of the template, counted.
RECURSIVE Day14Connections(_, _)
Day14Connections(poly_template, i) ==
    IF i = 0 THEN Day14Counter
    ELSE Day14Add(Day14Connections(poly_template, i - 1),
                  <<poly_template[i - 1], poly_template[i]>>, 1)

\* day14.py:101-105: part_1 with rules for every pair, a template of two
\* letters or more and a number of steps.
InitDay14 ==
    /\ \E rules \in [Day14Pairs -> Day14Elements],
          length \in 2 .. Day14MaxLen, steps \in 1 .. Day14MaxSteps :
          \E poly_template \in [Range(length) -> Day14Elements] :
             day14 = [pc |-> "loop", rules |-> rules,
                      poly_template |-> poly_template, steps |-> steps,
                      step |-> 0,
                      connection_counter |->
                          Day14Connections(poly_template, length - 1),
                      answer |-> 0]
    /\ day5 = Off /\ day6 = Off /\ day7 = Off /\ day8 = Off /\ day9 = Off
    /\ day11 = Off /\ day15 = Off /\ day18 = Off
    /\ day16 = Off

\* day14.py:107-108: one round of the loop.
Day14Breakdown ==
    /\ day14.pc = "loop"
    /\ day14.step < day14.steps
    /\ day14' = [day14 EXCEPT
                    !.step = @ + 1,
                    !.connection_counter =
                        breakdown_structure(day14.connection_counter,
                                            day14.rules)]
    /\ UNCHANGED <<day5, day6, day7, day8, day9, day11, day15, day18, day16>>

\* day14.py:109-112: the loop is over, the answer is printed.
Day14Answer ==
    /\ day14.pc = "loop"
    /\ day14.step = day14.steps
    /\ day14' = [day14 EXCEPT
                    !.pc = "done",
                    !.answer = get_puzzel_answer(day14.connection_counter,
                                                 day14.poly_template)]
    /\ UNCHANGED <<day5, day6, day7, day8, day9, day11, day15, day18, day16>>

NextDay14 == Day14Breakdown \/ Day14Answer

SpecDay14 == InitDay14 /\ [][NextDay14]_vars

\* The polymer with the element of the rule between every two neighbours.
Day14Insert(polymer, rules) ==
    [i \in Range(2 * Size(polymer) - 1) |->
        IF i % 2 = 0 THEN polymer[i \div 2]
        ELSE rules[<<polymer[(i - 1) \div 2], polymer[(i + 1) \div 2]>>]]

RECURSIVE Day14Expand(_, _, _)
Day14Expand(polymer, rules, steps) ==
    IF steps = 0 THEN polymer
    ELSE Day14Insert(Day14Expand(polymer, rules, steps - 1), rules)

\* Most common minus least common element of a polymer.
Day14Quantities(polymer) ==
    LET quantity(e) == Cardinality({i \in DOMAIN polymer : polymer[i] = e})
        counts == {quantity(polymer[i]) : i \in DOMAIN polymer}
    IN  (CHOOSE most \in counts : \A c \in counts : c <= most)
        - (CHOOSE least \in counts : \A c \in counts : least <= c)

RECURSIVE Day14Power(_)
Day14Power(n) == IF n = 0 THEN 1 ELSE 2 * Day14Power(n - 1)

\* C9: after any number of rounds the pair counter holds the template's
\* pairs doubled once per round, and the answer computed from the counter
\* is the answer of the polymer expanded letter by letter: the most common
\* element's quantity minus the least common element's quantity.
C9_CounterMatchesExpansion ==
    /\ day14.pc # "off" =>
          SumOver(day14.connection_counter, DOMAIN day14.connection_counter)
             = (Size(day14.poly_template) - 1) * Day14Power(day14.step)
    /\ day14.pc = "done" =>
          day14.answer = Day14Quantities(Day14Expand(day14.poly_template,
                                                     day14.rules, day14.steps))

C9_Witness ==
    /\ day14.pc = "done"
    /\ day14.step >= 2
    /\ day14.answer >= 2
    /\ Cardinality(DOMAIN day14.connection_counter) >= 3
    /\ \E key \in DOMAIN day14.connection_counter :
          /\ day14.connection_counter[key] >= 2
          /\ day14.rules[key] = key[1]
          /\ key[1] = key[2]

(***************************************************************************)
(* day5.py: calc_points_overlaping                                         *)
(* vent_diagramm is a numpy array of uint8: an integer index k on an axis  *)
(* of n entries is taken as k + n when -n <= k < 0 and raises IndexError   *)
(* outside -n .. n-1; the bounds of a slice are wrapped the same way and   *)
(* then clipped to 0 .. n, without an error.                               *)
(***************************************************************************)
Day5FieldSize == 3
Day5Overshoot == 2
Day5MaxLines == 2

Day5Coordinates == (0 - Day5Overshoot) .. (Day5FieldSize - 1 + Day5Overshoot)

\* day5.py:36-41: the lines that read_as_2d_line yields from the numbers of
\* a file: straight lines with ordered end points, and diagonals.
Day5Lines ==
    {line \in [x_1 : Day5Coordinates, x_2 : Day5Coordinates,
               y_1 : Day5Coordinates, y_2 : Day5Coordinates,
               is_diag : BOOLEAN] :
        IF line.is_diag
        THEN /\ line.x_1 # line.x_2
             /\ line.y_1 # line.y_2
             /\ Abs(line.x_1 - line.x_2) = Abs(line.y_1 - line.y_2)
        ELSE /\ line.x_1 = line.x_2 \/ line.y_1 = line.y_2
             /\ line.x_1 <= line.x_2
             /\ line.y_1 <= line.y_2}

\* day5.py:71
Day5Zeros == [x \in Range(Day5FieldSize) |-> [y \in Range(Day5FieldSize) |-> 0]]

\* An integer index that numpy accepts, and the entry it stands for.
Day5Valid(k) == (0 - Day5FieldSize) <= k /\ k < Day5FieldSize

Day5Entry(k) == IF k < 0 THEN k + Day5FieldSize ELSE k

\* A bound of a slice with step 1, as slice.indices computes it.
Day5SliceBound(k) ==
    IF k < 0
    THEN (IF k + Day5FieldSize < 0 THEN 0 ELSE k + Day5FieldSize)
    ELSE (IF k > Day5FieldSize THEN Day5FieldSize ELSE k)

\* The entries of start : stop.
Day5Slice(start, stop) ==
    {k \in Range(Day5FieldSize) :
        Day5SliceBound(start) <= k /\ k < Day5SliceBound(stop)}

\* += 1 on a uint8.
Day5Increment(value) == (value + 1) % 256

\* day5.py:80
Day5AddSlice(vent_diagramm, line) ==
    [x \in Range(Day5FieldSize) |-> [y \in Range(Day5FieldSize) |->
        IF /\ x \in Day5Slice(line.x_1, line.x_2 + 1)
           /\ y \in Day5Slice(line.y_1, line.y_2 + 1)
        THEN Day5Increment(vent_diagramm[x][y])
        ELSE vent_diagramm[x][y]]]

\* day5.py:75-76
Day5Delta(start, stop) == IF stop > start THEN 1 ELSE -1

\* day5.py:77-78: the points of a diagonal from point i on; the loop stops
\* at the first point that numpy refuses, with the points before it drawn.
RECURSIVE Day5AddDiagonal(_, _, _)
Day5AddDiagonal(vent_diagramm, line, i) ==
    LET x == line.x_1 + Day5Delta(line.x_1, line.x_2) * i
        y == line.y_1 + Day5Delta(line.y_1, line.y_2) * i
    IN  IF i = Abs(line.x_2 - line.x_1) + 1
        THEN [raised |-> FALSE, vent_diagramm |-> vent_diagramm]
        ELSE IF ~(Day5Valid(x) /\ Day5Valid(y))
        THEN [raised |-> TRUE, vent_diagramm |-> vent_diagramm]
        ELSE Day5AddDiagonal(
                 [vent_diagramm EXCEPT ![Day5Entry(x)][Day5Entry(y)] =
                     Day5Increment(@)],
                 line, i + 1)

\* No line taken from the iterable yet.
Day5NoLine ==
    [x_1 |-> 0, x_2 |-> 0, y_1 |-> 0, y_2 |-> 0, is_diag |-> FALSE]

\* day5.py:71: the call, with the flag use_diagonals.
InitDay5 ==
    /\ \E use_diagonals \in BOOLEAN :
          day5 = [pc |-> "loop", use_diagonals |-> use_diagonals,
                  vent_diagramm |-> Day5Zeros, count |-> 0,
                  line |-> Day5NoLine, overlaping |-> 0]
    /\ day6 = Off /\ day7 = Off /\ day8 = Off /\ day9 = Off /\ day11 = Off
    /\ day14 = Off /\ day15 = Off /\ day18 = Off
    /\ day16 = Off

\* day5.py:73-78: the next line is a diagonal and diagonals are drawn;
\* an index that numpy refuses ends the call with an IndexError.
Day5Diagonal ==
    /\ day5.pc = "loop"
    /\ day5.count < Day5MaxLines
    /\ day5.use_diagonals
    /\ \E line \in Day5Lines :
          /\ line.is_diag
          /\ \E drawn \in {Day5AddDiagonal(day5.vent_diagramm, line, 0)} :
                day5' = [day5 EXCEPT
                            !.pc = IF drawn.raised THEN "IndexError"
                                   ELSE "loop",
                            !.vent_diagramm = drawn.vent_diagramm,
                            !.count = @ + 1,
                            !.line = line]
    /\ UNCHANGED <<day6, day7, day8, day9, day11, day14, day15, day18, day16>>

\* day5.py:73-80: the next line is horizontal or vertical.
Day5Straight ==
    /\ day5.pc = "loop"
    /\ day5.count < Day5MaxLines
    /\ \E line \in Day5Lines :
          /\ ~line.is_diag
          /\ day5' = [day5 EXCEPT
                         !.vent_diagramm = Day5AddSlice(day5.vent_diagramm,
                                                        line),
                         !.count = @ + 1,
                         !.line = line]
    /\ UNCHANGED <<day6, day7, day8, day9, day11, day14, day15, day18, day16>>

\* day5.py:73-79: the next line is a diagonal and diagonals are left out.
Day5Skip ==
    /\ day5.pc = "loop"
    /\ day5.count < Day5MaxLines
    /\ ~day5.use_diagonals
    /\ \E line \in Day5Lines :
          /\ line.is_diag
          /\ day5' = [day5 EXCEPT !.count = @ + 1, !.line = line]
    /\ UNCHANGED <<day6, day7, day8, day9, day11, day14, day15, day18, day16>>

\* day5.py:82: the iterable is exhausted.
Day5Return ==
    /\ day5.pc = "loop"
    /\ day5' = [day5 EXCEPT
                   !.pc = "done",
                   !.overlaping =
                       Cardinality({point \in Range(Day5FieldSize)
                                              \X Range(Day5FieldSize) :
                           day5.vent_diagramm[point[1]][point[2]] >= 2})]
    /\ UNCHANGED <<day6, day7, day8, day9, day11, day14, day15, day18, day16>>

NextDay5 == Day5Diagonal \/ Day5Straight \/ Day5Skip \/ Day5Return

SpecDay5 == InitDay5 /\ [][NextDay5]_vars

\* A line with a coordinate outside 0 .. field_size - 1.
Day5Outside(line) ==
    \E k \in {line.x_1, line.x_2, line.y_1, line.y_2} :
        k < 0 \/ k >= Day5FieldSize

\* C10: a line with a coordinate outside 0 .. field_size - 1, too large or
\* negative, ends the call with an exception as soon as it is taken from
\* the iterable: it is never clipped, wrapped around or left out.
C10_OutsideRaises ==
    (day5.pc # "off" /\ day5.count > 0 /\ Day5Outside(day5.line))
        => day5.pc = "IndexError"

(***************************************************************************)
(* day16.py: sum_versions, parse_bits_transmission, part_1                 *)
(* The bit string is a sequence of 0 and 1; bits[a : b] of the code is     *)
(* Day16Slice(bits, a, b).  The recursion of parse_bits_transmission is a  *)
(* stack of the operator packets whose sub-packets are being parsed.       *)
(***************************************************************************)
Day16MaxPackets == 3
Day16MaxParses == 2

Day16Versions == {1, 6}

Day16Literals == {5, 20}

\* Operators that take any number of sub-packets, and operators that
\* compare two sub-packets.
Day16Folds == {0}

Day16Comparisons == {6}

\* A packet: version, type, length type (mode), literal value, sub-packets.
Day16Packet(version, packet_type, mode, value, subs) ==
    [version |-> version, packet_type |-> packet_type, mode |-> mode,
     value |-> value, subs |-> subs]

\* The packets made of n packets in all, sub-packets included.
RECURSIVE Day16Packets(_)
Day16Packets(n) ==
    IF n = 1
    THEN {Day16Packet(version, 4, 0, value, <<>>) :
             version \in Day16Versions, value \in Day16Literals}
    ELSE LET one == {<<sub>> : sub \in Day16Packets(n - 1)}
             two == UNION {{<<first, second>> :
                               first \in Day16Packets(i),
                               second \in Day16Packets(n - 1 - i)} :
                           i \in 1 .. (n - 2)}
         IN  {Day16Packet(version, packet_type, mode, 0, subs) :
                 version \in Day16Versions, packet_type \in Day16Folds,
                 mode \in {0, 1}, subs \in one \cup two}
             \cup
             {Day16Packet(version, packet_type, mode, 0, subs) :
                 version \in Day16Versions, packet_type \in Day16Comparisons,
                 mode \in {0, 1}, subs \in two}

\* n as a binary number of width bits, most significant bit first.
RECURSIVE Day16Bin(_, _)
Day16Bin(n, width) ==
    IF width = 0 THEN <<>>
    ELSE Append(Day16Bin(n \div 2, width - 1), n % 2)

\* day16.py:63-67 read backwards: a literal as groups of a flag and four
\* bits, the flag 0 on the last group only.
RECURSIVE Day16Groups(_, _)
Day16Groups(value, flag) ==
    (IF value >= 16 THEN Day16Groups(value \div 16, 1) ELSE <<>>)
        \o <<flag>> \o Day16Bin(value % 16, 4)

RECURSIVE Day16Concat(_)
Day16Concat(seqs) ==
    IF seqs = <<>> THEN <<>> ELSE Head(seqs) \o Day16Concat(Tail(seqs))

\* day16.py:57-90 read backwards: the bits of a packet.
RECURSIVE Day16Encode(_)
Day16Encode(packet) ==
    LET subs == Day16Concat([i \in DOMAIN packet.subs |->
                                Day16Encode(packet.subs[i])])
    IN  Day16Bin(packet.version, 3) \o Day16Bin(packet.packet_type, 3)
        \o (IF packet.packet_type = 4 THEN Day16Groups(packet.value, 0)
            ELSE IF packet.mode = 0
            THEN <<0>> \o Day16Bin(Len(subs), 15) \o subs
            ELSE <<1>> \o Day16Bin(Len(packet.subs), 11) \o subs)

\* day16.py:25-27: a message is whole hexadecimal digits, so the bits of
\* the packet are followed by zeros up to a multiple of four.
Day16Message(packet) ==
    LET bits == Day16Encode(packet)
    IN  bits \o [i \in 1 .. ((4 - (Len(bits) % 4)) % 4) |-> 0]

Day16Transmissions ==
    UNION {Day16Packets(n) : n \in 1 .. Day16MaxPackets}

\* bits[start : stop]
Day16Slice(bits, start, stop) ==
    SubSeq(bits, start + 1, IF stop > Len(bits) THEN Len(bits) ELSE stop)

\* int(digits, 2) of a string that is not empty.
RECURSIVE Day16Int(_)
Day16Int(digits) ==
    IF Len(digits) = 1 THEN digits[1]
    ELSE 2 * Day16Int(SubSeq(digits, 1, Len(digits) - 1)) + digits[Len(digits)]

\* The type field read as the version, a slip of three bits.
Day16VersionShifted(bits, pos) == Day16Int(Day16Slice(bits, pos + 3, pos + 6))

\* day16.py:57
Day16Version(bits, pos) == Day16Int(Day16Slice(bits, pos + 0, pos + 3))

\* day16.py:59
Day16Type(bits, pos) == Day16Int(Day16Slice(bits, pos + 3, pos + 6))

\* day16.py:63-67: the loop over the groups of a literal, pos at a group.
RECURSIVE Day16LiteralLoop(_, _, _)
Day16LiteralLoop(bits, pos, value) ==
    LET next == value * 16 + Day16Int(Day16Slice(bits, pos + 1, pos + 5))
    IN  IF bits[pos + 1] = 0
        THEN [value |-> next, pos |-> pos + 5]
        ELSE Day16LiteralLoop(bits, pos + 5, next)

Day16Product(values) ==
    LET RECURSIVE prod(_)
        prod(i) == IF i = 0 THEN 1 ELSE prod(i - 1) * values[i]
    IN  prod(Len(values))

\* day16.py:92-110; a comparison of fewer than two values is an IndexError,
\* min and max of no value a ValueError.
Day16Apply(packet_type, values) ==
    LET all == {values[i] : i \in DOMAIN values}
    IN  CASE packet_type = 0 -> SumOver(values, DOMAIN values)
          [] packet_type = 1 -> Day16Product(values)
          [] packet_type = 2 -> CHOOSE v \in all : \A w \in all : v <= w
          [] packet_type = 3 -> CHOOSE v \in all : \A w \in all : w <= v
          [] packet_type = 5 -> IF values[1] > values[2] THEN 1 ELSE 0
          [] packet_type = 6 -> IF values[1] < values[2] THEN 1 ELSE 0
          [] packet_type = 7 -> IF values[1] = values[2] THEN 1 ELSE 0

\* The version fields of a packet and of its sub-packets, in the order of
\* their headers in the bits.
RECURSIVE Day16Headers(_)
Day16Headers(packet) ==
    <<packet.version>>
        \o Day16Concat([i \in DOMAIN packet.subs |->
                           Day16Headers(packet.subs[i])])

\* The sum of the first n entries.
RECURSIVE Day16Sum(_, _)
Day16Sum(versions, n) ==
    IF n = 0 THEN 0 ELSE Day16Sum(versions, n - 1) + versions[n]

\* No transmission at hand.
Day16Idle(sum_versions, parses, before) ==
    [pc |-> "idle", sum_versions |-> sum_versions, bits |-> <<>>, pos |-> 0,
     stack |-> <<>>, value |-> 0, parses |-> parses,
     versions |-> <<>>, calls |-> 0, before |-> before]

\* day16.py:31: the module is loaded.  The fields versions, calls and before
\* are not in the code: the headers of the transmission at hand, the calls
\* made for it so far and the version fields of the transmissions before.
InitDay16 ==
    /\ day16 = Day16Idle(0, 0, 0)
    /\ day5 = Off /\ day6 = Off /\ day7 = Off /\ day8 = Off /\ day9 = Off
    /\ day11 = Off /\ day14 = Off /\ day15 = Off /\ day18 = Off

\* day16.py:131: a top-level call at position 0 of a message.
Day16Parse ==
    /\ day16.pc = "idle"
    /\ day16.parses < Day16MaxParses
    /\ \E packet \in Day16Transmissions :
          day16' = [day16 EXCEPT !.pc = "call",
                                 !.bits = Day16Message(packet),
                                 !.versions = Day16Headers(packet)]
    /\ UNCHANGED <<day5, day6, day7, day8, day9, day11, day14, day15, day18>>

\* day16.py:56-67: a call on a literal packet, up to its return.
Day16Literal ==
    /\ day16.pc = "call"
    /\ Day16Type(day16.bits, day16.pos) = 4
    /\ \E literal \in {Day16LiteralLoop(day16.bits, day16.pos + 6, 0)} :
          day16' = [day16 EXCEPT
                       !.pc = "returned",
                       !.sum_versions =
                           @ + Day16Version(day16.bits, day16.pos),
                       !.value = literal.value,
                       !.pos = literal.pos,
                       !.calls = @ + 1]
    /\ UNCHANGED <<day5, day6, day7, day8, day9, day11, day14, day15, day18>>

\* day16.py:69-75, 85-86: the locals of a call on an operator packet.
Day16Frame(bits, pos) ==
    IF bits[pos + 6 + 1] = 0
    THEN [packet_type |-> Day16Type(bits, pos), mode |-> 0,
          len_bits |-> Day16Int(Day16Slice(bits, pos + 7, pos + 7 + 15)),
          num_sub_packets |-> 0, start_i |-> pos + 7 + 15, values |-> <<>>]
    ELSE [packet_type |-> Day16Type(bits, pos), mode |-> 1, len_bits |-> 0,
          num_sub_packets |->
              Day16Int(Day16Slice(bits, pos + 7, pos + 7 + 11)),
          start_i |-> pos + 7 + 11, values |-> <<>>]

\* day16.py:56-59, 68-77, 82-88: a call on an operator packet, up to its
\* first call for a sub-packet; an operator of no sub-packets returns.
Day16Operator ==
    /\ day16.pc = "call"
    /\ Day16Type(day16.bits, day16.pos) # 4
    /\ \E frame \in {Day16Frame(day16.bits, day16.pos)} :
          IF frame.mode = 1 /\ frame.num_sub_packets = 0
          THEN day16' = [day16 EXCEPT
                            !.pc = "returned",
                            !.sum_versions =
                                @ + Day16Version(day16.bits, day16.pos),
                            !.value = Day16Apply(frame.packet_type, <<>>),
                            !.pos = frame.start_i,
                            !.calls = @ + 1]
          ELSE day16' = [day16 EXCEPT
                            !.sum_versions =
                                @ + Day16Version(day16.bits, day16.pos),
                            !.stack = Append(@, frame),
                            !.pos = frame.start_i,
                            !.calls = @ + 1]
    /\ UNCHANGED <<day5, day6, day7, day8, day9, day11, day14, day15, day18>>

\* day16.py:80, 87: the loop over the sub-packets is over.
Day16LoopEnds(frame, values, pos) ==
    IF frame.mode = 0 THEN pos - frame.start_i = frame.len_bits
    ELSE Len(values) = frame.num_sub_packets

\* day16.py:77-81, 87-90: a sub-packet returned and the next one is called.
Day16NextSub ==
    /\ day16.pc = "returned"
    /\ day16.stack # <<>>
    /\ LET frame == day16.stack[Len(day16.stack)]
           values == Append(frame.values, day16.value)
       IN  /\ ~Day16LoopEnds(frame, values, day16.pos)
           /\ day16' = [day16 EXCEPT
                           !.pc = "call",
                           !.stack[Len(day16.stack)].values = values]
    /\ UNCHANGED <<day5, day6, day7, day8, day9, day11, day14, day15, day18>>

\* day16.py:77-81, 87-110: the last sub-packet returned, the operator is
\* applied and the call returns.
Day16Return ==
    /\ day16.pc = "returned"
    /\ day16.stack # <<>>
    /\ LET frame == day16.stack[Len(day16.stack)]
           values == Append(frame.values, day16.value)
       IN  /\ Day16LoopEnds(frame, values, day16.pos)
           /\ day16' = [day16 EXCEPT
                           !.value = Day16Apply(frame.packet_type, values),
                           !.stack = SubSeq(@, 1, Len(@) - 1)]
    /\ UNCHANGED <<day5, day6, day7, day8, day9, day11, day14, day15, day18>>

\* day16.py:131-132: the top-level call returned.
Day16Finish ==
    /\ day16.pc = "returned"
    /\ day16.stack = <<>>
    /\ day16' = Day16Idle(day16.sum_versions, day16.parses + 1,
                          day16.before
                              + Day16Sum(day16.versions, Len(day16.versions)))
    /\ UNCHANGED <<day5, day6, day7, day8, day9, day11, day14, day15, day18>>

NextDay16 ==
    \/ Day16Parse
    \/ Day16Literal
    \/ Day16Operator
    \/ Day16NextSub
    \/ Day16Return
    \/ Day16Finish

SpecDay16 == InitDay16 /\ [][NextDay16]_vars

\* The counter holds the version fields of the transmissions before and of
\* the headers that the calls made so far have read.
Day16Counted ==
    day16.pc # "off" =>
       /\ day16.calls <= Len(day16.versions)
       /\ day16.sum_versions
             = day16.before + Day16Sum(day16.versions, day16.calls)
       /\ (day16.pc = "returned" /\ day16.stack = <<>>)
             => day16.calls = Len(day16.versions)

\* C11: sum_versions is the sum of the version fields of every header
\* parsed since the module was loaded: every call, top-level or nested,
\* adds the version of its own packet once, no step makes the counter
\* smaller, and when a top-level parse returns the counter holds the total
\* over all transmissions parsed so far.
C11_CounterAccumulates ==
    /\ []Day16Counted
    /\ [][day16.pc # "off" => day16'.sum_versions >= day16.sum_versions]_vars

C11_Witness ==
    /\ day16.pc = "returned"
    /\ day16.stack = <<>>
    /\ day16.parses >= 1
    /\ day16.before > 0
    /\ Len(day16.versions) >= 3
    /\ day16.sum_versions > day16.before + day16.versions[1]
=============================================================================
